---------------------------- MODULE Spec2Model ----------------------------
(***************************************************************************)
(* A model of the short-ID generator (package shortid) and of the          *)
(* per-client rate limiter registry (package handlers) of go-urlshortner,  *)
(* and of the gin routes and the server's shutdown.                        *)
(*                                                                         *)
(* The specifications share the module's variables:                        *)
(*   SpecGen     one call of shortid.Generate, stepped through             *)
(*               generateRandomString;                                     *)
(*   SpecUnique  one call of shortid.GenerateUniqueDataStore against a     *)
(*               datastore and a cancellable context;                      *)
(*   SpecUniqueLen the same call with non-positive lengths as well;        *)
(*   SpecLimiter concurrent handlers calling NewRateLimiter and Allow;     *)
(*   SpecService concurrent requests to the GET, POST, PUT and DELETE      *)
(*               routes;                                                   *)
(*   SpecShutdown startServer from ListenAndServe to the process's exit;   *)
(*   SpecWorkers workerk8s.RunWorkers with its workers, its shutdown       *)
(*               function and a consumer of the results channel, and       *)
(*               SpecWorkersFair, the same under fair scheduling.          *)
(* Strings of the generator are sequences of one-character strings; IDs,   *)
(* URLs and headers of the routes are plain strings.                       *)
(***************************************************************************)
EXTENDS Integers, Sequences, FiniteSets, TLC

VARIABLES
    \* ---- shortid.Generate / generateRandomString (one call)
    entry,        \* the function called: "Generate" or "generateRandomString"
    gpc,          \* position in the call: "call", "read", "loop", "trim", "done", "panic"
    length,       \* the length argument
    encoded,      \* the local string `encoded`
    gout,         \* returned string
    gerr,         \* returned error: "none", "length", "random"
    drawn,        \* number of random bytes read from crypto/rand so far
    firstDraw,    \* size of the first buffer handed to rand.Read (-1: none yet)
    \* ---- shortid.GenerateUniqueDataStore (one call)
    upc,          \* "gen", "lookup", "done", "panic"
    ulength,      \* the length argument
    i,            \* the loop counter
    id,           \* the candidate of the current attempt
    store,        \* keys present in the datastore
    ctxCancelled, \* whether ctx is cancelled
    uid,          \* returned ID
    uerr,         \* returned error: "none", "random", "lookup", "cancelled", "exhausted"
    gens,         \* candidates generated so far
    lookups,      \* datastore lookups made so far
    collisions,   \* lookups that answered "found"
    lookedUp,     \* the candidate of the last lookup
    answer,       \* the answer of the last lookup
    absentAtCheck, \* whether lookedUp was no key of the datastore at its lookup
    cancelledAtLookup, \* whether ctx was cancelled when the last lookup was made
    \* ---- RateLimiterStore, NewRateLimiter, applyRateLimit (concurrent handlers)
    mutex,        \* holders of RateLimiterStore's lock
    limiters,     \* RateLimiterStore.limiters: key -> limiter instance (0: no entry)
    objs,         \* the heap of *rate.Limiter: instance -> [rate, burst, tokens]
    nextId,       \* next instance to allocate
    lpc,          \* handler position
    lkey,         \* handler's key argument
    lrate,        \* handler's r argument
    lburst,       \* handler's b argument
    llimiter,     \* NewRateLimiter's local `limiter`
    lexists,      \* NewRateLimiter's local `exists`
    handle,       \* the limiter NewRateLimiter returned to the handler
    allowed,      \* result of the handler's last Allow: "none", "true", "false"
    created,      \* per key, instances created by rate.NewLimiter so far
    handed,       \* per key, instances NewRateLimiter has returned so far
    \* ---- the gin routes: middleware, handlers and the datastore (concurrent requests)
    ds,           \* the datastore kind: ID -> Original ("" where there is no entity)
    bucket,       \* tokens of the client IP's limiter
    registered,   \* the store holds a limiter for the client IP
    rpc,          \* request position: "idle", "middleware", "ratelimit", "handler",
                  \* "lookup", "generate", "save", "read", "update", "delete", "respond"
    route,        \* the request's method: "GET", "POST", "PUT", "DELETE" ("" when idle)
    hdr,          \* the X-Internal-Secret header InternalOnly read ("unread" before)
    admit,        \* what applyRateLimit returned: "none", "true", "false"
    rid,          \* the handler's id
    rold,         \* req.OldURL of an edit, req.URL of a delete
    rnew,         \* req.NewURL of an edit, the URL of a create
    rerr,         \* the error the handler met: "none", "bind", "idmismatch",
                  \* "invalidurl", "notfound", "mismatch", "other"
    status,       \* HTTP status of the response (0: none yet)
    touched,      \* whether the request has called the datastore
    \* ---- startServer: runServer, waitForShutdownSignal, cleanupResources
    mainpc,       \* main goroutine: "wait", "shutdown", "cleanup", "return"
    server,       \* http.Server: "new", "listening", "closing", "closed"
    active,       \* requests being served
    quit,         \* signals buffered in the channel quit
    received,     \* the signal main took from quit ("" when none)
    elapsed,      \* seconds since server.Shutdown was called
    dsClient,     \* datastore client: "open", "closed", "closeFailed"
    exited,       \* "running", "returned", "exit1" (os.Exit(1)), "fatal" (logger.Fatal)
    \* ---- workerk8s.RunWorkers: the workers, the shutdown closure, the consumer
    wpc,          \* worker position: "list", "loop", "sendErr", "sendStatus",
                  \* "sendCancel", "done" (returned, wg.Done() made)
    left,         \* pods the worker's range loop has still to visit
    cancelMsgs,   \* cancellation messages the worker has sent
    ctxDone,      \* whether shutdownCtx is cancelled
    shutdownCalls, \* calls of the returned shutdown function so far
    closers,      \* goroutines of shutdown blocked in wg.Wait()
    closed,       \* whether results is closed
    consumer,     \* the caller's range over results: "ranging", "ended"
    panicked      \* "none", "closeOfClosed"

genVars == <<entry, gpc, length, encoded, gout, gerr, drawn, firstDraw>>
uniqVars == <<upc, ulength, i, id, store, ctxCancelled, uid, uerr, gens, lookups,
              collisions, lookedUp, answer, absentAtCheck, cancelledAtLookup>>
limVars == <<mutex, limiters, objs, nextId, lpc, lkey, lrate, lburst, llimiter,
             lexists, handle, allowed, created, handed>>
svcVars == <<ds, bucket, registered, rpc, route, hdr, admit, rid, rold, rnew, rerr, status,
             touched>>
shutVars == <<mainpc, server, active, quit, received, elapsed, dsClient, exited>>
wkVars == <<wpc, left, cancelMsgs, ctxDone, shutdownCalls, closers, closed, consumer,
            panicked>>
vars == <<genVars, uniqVars, limVars, svcVars, shutVars, wkVars>>

----------------------------------------------------------------------------
(* Bounds of the model *)

\* largest length argument tried on Generate
MaxLength == 10
\* smallest length argument tried is -MinLengthBelow
MinLengthBelow == 3

\* largest length argument tried on GenerateUniqueDataStore
MaxUniqueLength == 1

\* number of concurrent request handlers
NumProcs == 2
\* limiter instances the heap can hold
MaxLimiters == 3

\* Values a random byte takes in the model
ByteValues == {0, 255}

----------------------------------------------------------------------------
(* Go integer arithmetic: / and % truncate toward zero *)

GoDiv(a, b) == IF a >= 0 THEN a \div b ELSE -((-a) \div b)

GoMod(a, b) == a - b * GoDiv(a, b)

----------------------------------------------------------------------------
(* encoding/base64 URLEncoding (padded) *)

Alphabet ==
    << "A","B","C","D","E","F","G","H","I","J","K","L","M","N","O","P",
       "Q","R","S","T","U","V","W","X","Y","Z","a","b","c","d","e","f",
       "g","h","i","j","k","l","m","n","o","p","q","r","s","t","u","v",
       "w","x","y","z","0","1","2","3","4","5","6","7","8","9","-","_" >>

PadChar == "="

Sextet(n) == Alphabet[n + 1]

\* One full 3-byte group gives 4 characters.
Enc3(b0, b1, b2) ==
    << Sextet(b0 \div 4),
       Sextet((b0 % 4) * 16 + (b1 \div 16)),
       Sextet((b1 % 16) * 4 + (b2 \div 64)),
       Sextet(b2 % 64) >>

\* A trailing group of 1 or 2 bytes is padded to 4 characters with "=".
EncTail(bytes) ==
    IF Len(bytes) = 0 THEN << >>
    ELSE IF Len(bytes) = 1
         THEN << Sextet(bytes[1] \div 4), Sextet((bytes[1] % 4) * 16),
                 PadChar, PadChar >>
         ELSE << Sextet(bytes[1] \div 4),
                 Sextet((bytes[1] % 4) * 16 + (bytes[2] \div 16)),
                 Sextet((bytes[2] % 16) * 4),
                 PadChar >>

RECURSIVE EncodeToString(_)
EncodeToString(bytes) ==
    IF Len(bytes) < 3 THEN EncTail(bytes)
    ELSE Enc3(bytes[1], bytes[2], bytes[3])
         \o EncodeToString(SubSeq(bytes, 4, Len(bytes)))

\* All byte slices of length n the random source can fill.
ByteSeqs(n) == [1..n -> ByteValues]

----------------------------------------------------------------------------
(* shortid.generateRandomString, computed as the code computes it *)

\* a slip: the division made before the multiplication
BufferSizeDivFirst(len) ==
    GoDiv(len, 4) * 3 + (IF GoMod(len, 3) # 0 THEN 1 ELSE 0)

\* bufferSize := length * 3 / 4; if length%3 != 0 { bufferSize++ }
BufferSize(len) ==
    GoDiv(len * 3, 4) + (IF GoMod(len, 3) # 0 THEN 1 ELSE 0)

\* extraBytes := make([]byte, (extraBytesNeeded*3+3)/4)
ExtraSize(len, enc) == GoDiv((len - Len(enc)) * 3 + 3, 4)

\* for len(encoded) < length
NeedsTopUp(len, enc) == Len(enc) < len

\* encoded = encoded[:length]; panics when length is out of range
TrimPanics(len, enc) == len < 0 \/ len > Len(enc)

\* a slip: the slice bound one short
TrimOneShort(len, enc) == SubSeq(enc, 1, len - 1)

Trim(len, enc) == SubSeq(enc, 1, len)

----------------------------------------------------------------------------
(* Initial values of the parts a specification does not run *)

GenIdle ==
    /\ entry = "Generate" /\ gpc = "done" /\ length = 0 /\ encoded = << >>
    /\ gout = << >> /\ gerr = "none" /\ drawn = 0 /\ firstDraw = -1

UniqIdle ==
    /\ upc = "done" /\ ulength = 0 /\ i = 0 /\ id = << >> /\ store = {}
    /\ ctxCancelled = FALSE /\ uid = << >> /\ uerr = "none"
    /\ gens = 0 /\ lookups = 0 /\ collisions = 0 /\ lookedUp = << >>
    /\ answer = "none" /\ absentAtCheck = FALSE /\ cancelledAtLookup = FALSE

LimIdle ==
    /\ mutex = {} /\ limiters = << >> /\ objs = << >> /\ nextId = 1
    /\ lpc = << >> /\ lkey = << >> /\ lrate = << >> /\ lburst = << >>
    /\ llimiter = << >> /\ lexists = << >> /\ handle = << >>
    /\ allowed = << >> /\ created = << >> /\ handed = << >>

SvcIdle ==
    /\ ds = << >> /\ bucket = 0 /\ registered = FALSE /\ rpc = << >> /\ route = << >> /\ hdr = << >>
    /\ admit = << >> /\ rid = << >> /\ rold = << >> /\ rnew = << >>
    /\ rerr = << >> /\ status = << >> /\ touched = << >>

ShutIdle ==
    /\ mainpc = "return" /\ server = "closed" /\ active = 0 /\ quit = << >>
    /\ received = "" /\ elapsed = 0 /\ dsClient = "closed" /\ exited = "returned"

WkIdle ==
    /\ wpc = << >> /\ left = << >> /\ cancelMsgs = << >> /\ ctxDone = FALSE
    /\ shutdownCalls = 0 /\ closers = 0 /\ closed = FALSE
    /\ consumer = "ended" /\ panicked = "none"

----------------------------------------------------------------------------
(* shortid.Generate and generateRandomString, one step per statement *)

\* a slip: zero passes the guard
InvalidLengthStrict(len) == len < 0

\* if length <= 0
InvalidLength(len) == len <= 0

\* Generate: return "", fmt.Errorf("length must be a positive integer ...")
GenerateReject ==
    /\ gpc = "call" /\ entry = "Generate"
    /\ InvalidLength(length)
    /\ gout' = << >> /\ gerr' = "length" /\ gpc' = "done"
    /\ UNCHANGED <<uniqVars, limVars, svcVars, shutVars, wkVars, entry, length, encoded, drawn, firstDraw>>

\* Generate: return generateRandomString(length); or a direct call of it
EnterRandomString ==
    /\ gpc = "call"
    /\ entry = "Generate" => ~InvalidLength(length)
    /\ gpc' = "read"
    /\ UNCHANGED <<uniqVars, limVars, svcVars, shutVars, wkVars, entry, length, encoded, gout, gerr, drawn, firstDraw>>

\* randomBytes := make([]byte, bufferSize) with a negative size
MakePanic ==
    /\ gpc = "read" /\ BufferSize(length) < 0
    /\ gpc' = "panic"
    /\ UNCHANGED <<uniqVars, limVars, svcVars, shutVars, wkVars, entry, length, encoded, gout, gerr, drawn, firstDraw>>

\* rand.Read(randomBytes) succeeds; encoded := EncodeToString(randomBytes)
ReadRandom ==
    /\ gpc = "read" /\ BufferSize(length) >= 0
    /\ \E bytes \in ByteSeqs(BufferSize(length)) :
           encoded' = EncodeToString(bytes)
    /\ drawn' = drawn + BufferSize(length)
    /\ firstDraw' = BufferSize(length)
    /\ gpc' = "loop"
    /\ UNCHANGED <<uniqVars, limVars, svcVars, shutVars, wkVars, entry, length, gout, gerr>>

\* rand.Read fails: return "", err
ReadRandomFail ==
    /\ gpc = "read" /\ BufferSize(length) >= 0
    /\ gout' = << >> /\ gerr' = "random" /\ gpc' = "done"
    /\ firstDraw' = BufferSize(length)
    /\ UNCHANGED <<uniqVars, limVars, svcVars, shutVars, wkVars, entry, length, encoded, drawn>>

\* one iteration of the top-up loop
TopUp ==
    /\ gpc = "loop" /\ NeedsTopUp(length, encoded)
    /\ \E extra \in ByteSeqs(ExtraSize(length, encoded)) :
           encoded' = encoded \o EncodeToString(extra)
    /\ drawn' = drawn + ExtraSize(length, encoded)
    /\ UNCHANGED <<uniqVars, limVars, svcVars, shutVars, wkVars, entry, gpc, length, gout, gerr, firstDraw>>

\* rand.Read fails inside the loop: return "", err
TopUpFail ==
    /\ gpc = "loop" /\ NeedsTopUp(length, encoded)
    /\ gout' = << >> /\ gerr' = "random" /\ gpc' = "done"
    /\ UNCHANGED <<uniqVars, limVars, svcVars, shutVars, wkVars, entry, length, encoded, drawn, firstDraw>>

\* the loop condition is false
LoopExit ==
    /\ gpc = "loop" /\ ~NeedsTopUp(length, encoded)
    /\ gpc' = "trim"
    /\ UNCHANGED <<uniqVars, limVars, svcVars, shutVars, wkVars, entry, length, encoded, gout, gerr, drawn, firstDraw>>

\* encoded = encoded[:length] with length out of range
TrimPanic ==
    /\ gpc = "trim" /\ TrimPanics(length, encoded)
    /\ gpc' = "panic"
    /\ UNCHANGED <<uniqVars, limVars, svcVars, shutVars, wkVars, entry, length, encoded, gout, gerr, drawn, firstDraw>>

\* encoded = encoded[:length]; return encoded, nil
TrimReturn ==
    /\ gpc = "trim" /\ ~TrimPanics(length, encoded)
    /\ encoded' = Trim(length, encoded)
    /\ gout' = Trim(length, encoded) /\ gerr' = "none" /\ gpc' = "done"
    /\ UNCHANGED <<uniqVars, limVars, svcVars, shutVars, wkVars, entry, length, drawn, firstDraw>>

InitGen ==
    /\ entry \in {"Generate", "generateRandomString"}
    /\ length \in (-MinLengthBelow)..MaxLength
    /\ gpc = "call" /\ encoded = << >> /\ gout = << >> /\ gerr = "none"
    /\ drawn = 0 /\ firstDraw = -1
    /\ UniqIdle /\ LimIdle /\ SvcIdle /\ ShutIdle /\ WkIdle

NextGen ==
    \/ GenerateReject \/ EnterRandomString \/ MakePanic \/ ReadRandom
    \/ ReadRandomFail \/ TopUp \/ TopUpFail \/ LoopExit \/ TrimPanic
    \/ TrimReturn

SpecGen == InitGen /\ [][NextGen]_vars

----------------------------------------------------------------------------
(* shortid.GenerateUniqueDataStore *)

\* const maxRetries = 1337
maxRetries == 1337

\* The strings generateRandomString(len) can return when the random source
\* works and nothing panics: every first buffer, every top-up.
RECURSIVE TopUpAll(_, _)
TopUpAll(len, enc) ==
    IF ~NeedsTopUp(len, enc) THEN {enc}
    ELSE UNION { TopUpAll(len, enc \o EncodeToString(extra)) :
                    extra \in ByteSeqs(ExtraSize(len, enc)) }

\* generateRandomString(len) panics: make with a negative size, or the
\* slice encoded[:length] out of range
RandomStringPanics(len) ==
    \/ BufferSize(len) < 0
    \/ \E bytes \in ByteSeqs(BufferSize(len)) :
          \E enc \in TopUpAll(len, EncodeToString(bytes)) : TrimPanics(len, enc)

Candidates(len) ==
    { Trim(len, enc) :
        enc \in UNION { TopUpAll(len, EncodeToString(bytes)) :
                           bytes \in ByteSeqs(BufferSize(len)) } }

\* a slip: one attempt too many
LoopCondInclusive(n) == n <= maxRetries

\* for i := 0; i < maxRetries; i++
LoopCond(n) == n < maxRetries

\* a slip: the found and not-found answers swapped
GetURLSwapped(keys, key, cancelled) ==
    {IF key \in keys THEN "notfound" ELSE "found", "error"}
        \cup (IF cancelled THEN {"cancelled"} ELSE {})

\* datastore.GetURL(ctx, client, id) as the caller sees it: the entity
\* (nil error), ErrNotFound, or another error of the client; with ctx
\* cancelled the client may also fail with the context's error.
GetURL(keys, key, cancelled) ==
    {IF key \in keys THEN "found" ELSE "notfound", "error"}
        \cup (IF cancelled THEN {"cancelled"} ELSE {})

\* id, err := generateRandomString(length)
GenerateCandidate ==
    /\ upc = "gen" /\ LoopCond(i)
    /\ ~RandomStringPanics(ulength)
    /\ \E c \in Candidates(ulength) : id' = c
    /\ gens' = gens + 1
    /\ upc' = "lookup"
    /\ UNCHANGED <<genVars, limVars, svcVars, shutVars, wkVars, ulength, i, store, ctxCancelled, uid, uerr,
                   lookups, collisions, lookedUp, answer, absentAtCheck,
                   cancelledAtLookup>>

\* return "", fmt.Errorf("error generating random string: %w", err)
GenerateFail ==
    /\ upc = "gen" /\ LoopCond(i)
    /\ BufferSize(ulength) >= 0
    /\ uid' = << >> /\ uerr' = "random" /\ upc' = "done"
    /\ UNCHANGED <<genVars, limVars, svcVars, shutVars, wkVars, ulength, i, id, store, ctxCancelled, gens,
                   lookups, collisions, lookedUp, answer, absentAtCheck,
                   cancelledAtLookup>>

\* the loop ends: return "", errors.New("failed to generate a unique short ID ...")
Exhausted ==
    /\ upc = "gen" /\ ~LoopCond(i)
    /\ uid' = << >> /\ uerr' = "exhausted" /\ upc' = "done"
    /\ UNCHANGED <<genVars, limVars, svcVars, shutVars, wkVars, ulength, i, id, store, ctxCancelled, gens,
                   lookups, collisions, lookedUp, answer, absentAtCheck,
                   cancelledAtLookup>>

\* what every lookup records
LookupMade(a) ==
    /\ lookups' = lookups + 1
    /\ lookedUp' = id
    /\ answer' = a
    /\ absentAtCheck' = (id \notin store)
    /\ cancelledAtLookup' = ctxCancelled

\* GetURL returned the entity: the ID exists, try another one
LookupFound ==
    /\ upc = "lookup" /\ "found" \in GetURL(store, id, ctxCancelled)
    /\ LookupMade("found")
    /\ collisions' = collisions + 1
    /\ i' = i + 1 /\ id' = << >> /\ upc' = "gen"
    /\ UNCHANGED <<genVars, limVars, svcVars, shutVars, wkVars, ulength, store, ctxCancelled, uid, uerr, gens>>

\* a slip: the ID returned is generated anew instead of the one checked
LookupNotFoundFresh ==
    /\ upc = "lookup" /\ "notfound" \in GetURL(store, id, ctxCancelled)
    /\ LookupMade("notfound")
    /\ \E c \in Candidates(ulength) : uid' = c
    /\ gens' = gens + 1
    /\ uerr' = "none" /\ upc' = "done"
    /\ UNCHANGED <<genVars, limVars, svcVars, shutVars, wkVars, ulength, i, id, store, ctxCancelled, collisions>>

\* a slip: the ID found free is reserved in the store before it is returned
LookupNotFoundSaves ==
    /\ upc = "lookup" /\ "notfound" \in GetURL(store, id, ctxCancelled)
    /\ LookupMade("notfound")
    /\ uid' = id /\ uerr' = "none" /\ upc' = "done"
    /\ store' = store \cup {id}
    /\ UNCHANGED <<genVars, limVars, svcVars, shutVars, wkVars, ulength, i, id, ctxCancelled, gens, collisions>>

\* errors.Is(err, datastore.ErrNotFound): return id, nil
LookupNotFound ==
    /\ upc = "lookup" /\ "notfound" \in GetURL(store, id, ctxCancelled)
    /\ LookupMade("notfound")
    /\ uid' = id /\ uerr' = "none" /\ upc' = "done"
    /\ UNCHANGED <<genVars, limVars, svcVars, shutVars, wkVars, ulength, i, id, store, ctxCancelled, gens,
                   collisions>>

\* a slip: any error of the lookup is retried like a collision
LookupErrorRetried ==
    /\ upc = "lookup"
    /\ \E a \in GetURL(store, id, ctxCancelled) \ {"found", "notfound"} :
          LookupMade(a)
    /\ i' = i + 1 /\ id' = << >> /\ upc' = "gen"
    /\ UNCHANGED <<genVars, limVars, svcVars, shutVars, wkVars, ulength, store, ctxCancelled, uid, uerr, gens,
                   collisions>>

\* return "", fmt.Errorf("error checking ID uniqueness: %w", err)
LookupError ==
    /\ upc = "lookup"
    /\ \E a \in GetURL(store, id, ctxCancelled) \ {"found", "notfound"} :
          /\ LookupMade(a)
          /\ uerr' = (IF a = "cancelled" THEN "cancelled" ELSE "lookup")
    /\ uid' = << >> /\ upc' = "done"
    /\ UNCHANGED <<genVars, limVars, svcVars, shutVars, wkVars, ulength, i, id, store, ctxCancelled, gens,
                   collisions>>

\* the caller's context is cancelled while the call runs
Cancel ==
    /\ upc # "done" /\ ~ctxCancelled
    /\ ctxCancelled' = TRUE
    /\ UNCHANGED <<genVars, limVars, svcVars, shutVars, wkVars, upc, ulength, i, id, store, uid, uerr, gens,
                   lookups, collisions, lookedUp, answer, absentAtCheck,
                   cancelledAtLookup>>

\* another request saves an entity under key k (datastore.SaveURL)
OtherSave ==
    /\ \E k \in Candidates(ulength) \ store : store' = store \cup {k}
    /\ UNCHANGED <<genVars, limVars, svcVars, shutVars, wkVars, upc, ulength, i, id, ctxCancelled, uid, uerr,
                   gens, lookups, collisions, lookedUp, answer, absentAtCheck,
                   cancelledAtLookup>>

\* another request deletes the entity of key k (datastore.DeleteURL)
OtherDelete ==
    /\ \E k \in store : store' = store \ {k}
    /\ UNCHANGED <<genVars, limVars, svcVars, shutVars, wkVars, upc, ulength, i, id, ctxCancelled, uid, uerr,
                   gens, lookups, collisions, lookedUp, answer, absentAtCheck,
                   cancelledAtLookup>>

InitUnique ==
    /\ ulength \in 1..MaxUniqueLength
    /\ store \in SUBSET Candidates(ulength)
    /\ ctxCancelled \in BOOLEAN
    /\ upc = "gen" /\ i = 0 /\ id = << >> /\ uid = << >> /\ uerr = "none"
    /\ gens = 0 /\ lookups = 0 /\ collisions = 0 /\ lookedUp = << >>
    /\ answer = "none" /\ absentAtCheck = FALSE /\ cancelledAtLookup = FALSE
    /\ GenIdle /\ LimIdle /\ SvcIdle /\ ShutIdle /\ WkIdle

NextUnique ==
    \/ GenerateCandidate \/ GenerateFail \/ Exhausted
    \/ LookupFound \/ LookupNotFound \/ LookupError
    \/ Cancel \/ OtherSave \/ OtherDelete

SpecUnique == InitUnique /\ [][NextUnique]_vars

\* generateRandomString(length) panics inside the first attempt
GeneratePanic ==
    /\ upc = "gen" /\ LoopCond(i)
    /\ RandomStringPanics(ulength)
    /\ upc' = "panic"
    /\ UNCHANGED <<genVars, limVars, svcVars, shutVars, wkVars, ulength, i, id, store, ctxCancelled, uid, uerr,
                   gens, lookups, collisions, lookedUp, answer, absentAtCheck,
                   cancelledAtLookup>>

\* The same call, with the non-positive lengths a caller can pass as well.
InitUniqueLen ==
    /\ ulength \in (-MinLengthBelow)..MaxUniqueLength
    /\ store \in (IF ulength >= 1 THEN SUBSET Candidates(ulength) ELSE {{}})
    /\ ctxCancelled \in BOOLEAN
    /\ upc = "gen" /\ i = 0 /\ id = << >> /\ uid = << >> /\ uerr = "none"
    /\ gens = 0 /\ lookups = 0 /\ collisions = 0 /\ lookedUp = << >>
    /\ answer = "none" /\ absentAtCheck = FALSE /\ cancelledAtLookup = FALSE
    /\ GenIdle /\ LimIdle /\ SvcIdle /\ ShutIdle /\ WkIdle

NextUniqueLen ==
    \/ GenerateCandidate \/ GenerateFail \/ Exhausted \/ GeneratePanic
    \/ LookupFound \/ LookupNotFound \/ LookupError
    \/ Cancel \/ OtherSave \/ OtherDelete

SpecUniqueLen == InitUniqueLen /\ [][NextUniqueLen]_vars

----------------------------------------------------------------------------
(* RateLimiterStore, NewRateLimiter and the handlers that call it *)

Procs == 1..NumProcs

\* client keys (c.ClientIP())
Keys == {"10.0.0.1", "10.0.0.2"}

\* (r, b) arguments tried on NewRateLimiter
Configs == { [rate |-> 1, burst |-> 2], [rate |-> 2, burst |-> 1] }

NoLimiter == 0

\* rate.NewLimiter(r, b): a bucket that starts full
NewLimiter(r, b) == [rate |-> r, burst |-> b, tokens |-> b]

Min(a, b) == IF a <= b THEN a ELSE b

\* a bucket after one more second: r tokens added, up to b
Refill(l) == [l EXCEPT !.tokens = Min(l.burst, l.tokens + l.rate)]

\* a slip: RLock in place of Lock, holders do not exclude each other
CanLockShared(m) == TRUE

\* RateLimiterStore.Lock() goes through when nobody holds the lock
CanLock(m) == m = {}

\* a handler is about to call NewRateLimiter(key, r, b)
Call(p) ==
    /\ lpc[p] = "idle"
    /\ \E k \in Keys, c \in Configs :
          /\ lkey' = [lkey EXCEPT ![p] = k]
          /\ lrate' = [lrate EXCEPT ![p] = c.rate]
          /\ lburst' = [lburst EXCEPT ![p] = c.burst]
    /\ lpc' = [lpc EXCEPT ![p] = "lock"]
    /\ UNCHANGED <<genVars, uniqVars, svcVars, shutVars, wkVars, mutex, limiters, objs, nextId, llimiter,
                   lexists, handle, allowed, created, handed>>

\* RateLimiterStore.Lock()
Lock(p) ==
    /\ lpc[p] = "lock" /\ CanLock(mutex)
    /\ mutex' = mutex \cup {p}
    /\ lpc' = [lpc EXCEPT ![p] = "check"]
    /\ UNCHANGED <<genVars, uniqVars, svcVars, shutVars, wkVars, limiters, objs, nextId, lkey, lrate, lburst,
                   llimiter, lexists, handle, allowed, created, handed>>

\* limiter, exists := RateLimiterStore.limiters[key]
Check(p) ==
    /\ lpc[p] = "check"
    /\ llimiter' = [llimiter EXCEPT ![p] = limiters[lkey[p]]]
    /\ lexists' = [lexists EXCEPT ![p] = (limiters[lkey[p]] # NoLimiter)]
    /\ lpc' = [lpc EXCEPT ![p] = "branch"]
    /\ UNCHANGED <<genVars, uniqVars, svcVars, shutVars, wkVars, mutex, limiters, objs, nextId, lkey, lrate,
                   lburst, handle, allowed, created, handed>>

\* a slip: the new limiter is not put into the map
InsertNotStored(p) ==
    /\ lpc[p] = "branch" /\ ~lexists[p]
    /\ nextId <= MaxLimiters
    /\ objs' = Append(objs, NewLimiter(lrate[p], lburst[p]))
    /\ nextId' = nextId + 1
    /\ llimiter' = [llimiter EXCEPT ![p] = nextId]
    /\ created' = [created EXCEPT ![lkey[p]] = @ + 1]
    /\ lpc' = [lpc EXCEPT ![p] = "return"]
    /\ UNCHANGED <<genVars, uniqVars, svcVars, shutVars, wkVars, mutex, limiters, lkey, lrate, lburst, lexists,
                   handle, allowed, handed>>

\* if !exists { limiter = rate.NewLimiter(r, b); limiters[key] = limiter }
Insert(p) ==
    /\ lpc[p] = "branch" /\ ~lexists[p]
    /\ nextId <= MaxLimiters
    /\ objs' = Append(objs, NewLimiter(lrate[p], lburst[p]))
    /\ nextId' = nextId + 1
    /\ llimiter' = [llimiter EXCEPT ![p] = nextId]
    /\ limiters' = [limiters EXCEPT ![lkey[p]] = nextId]
    /\ created' = [created EXCEPT ![lkey[p]] = @ + 1]
    /\ lpc' = [lpc EXCEPT ![p] = "return"]
    /\ UNCHANGED <<genVars, uniqVars, svcVars, shutVars, wkVars, mutex, lkey, lrate, lburst, lexists, handle,
                   allowed, handed>>

\* a slip: an existing limiter is reconfigured with the call's r and b
SkipReconfigured(p) ==
    /\ lpc[p] = "branch" /\ lexists[p]
    /\ objs' = [objs EXCEPT ![llimiter[p]] = NewLimiter(lrate[p], lburst[p])]
    /\ lpc' = [lpc EXCEPT ![p] = "return"]
    /\ UNCHANGED <<genVars, uniqVars, svcVars, shutVars, wkVars, mutex, limiters, nextId, lkey, lrate, lburst,
                   llimiter, lexists, handle, allowed, created, handed>>

\* exists: the if is skipped
Skip(p) ==
    /\ lpc[p] = "branch" /\ lexists[p]
    /\ lpc' = [lpc EXCEPT ![p] = "return"]
    /\ UNCHANGED <<genVars, uniqVars, svcVars, shutVars, wkVars, mutex, limiters, objs, nextId, lkey, lrate,
                   lburst, llimiter, lexists, handle, allowed, created, handed>>

\* return limiter, with the deferred RateLimiterStore.Unlock()
Return(p) ==
    /\ lpc[p] = "return"
    /\ mutex' = mutex \ {p}
    /\ handle' = [handle EXCEPT ![p] = llimiter[p]]
    /\ handed' = [handed EXCEPT ![lkey[p]] = @ \cup {llimiter[p]}]
    /\ lrate' = [lrate EXCEPT ![p] = 0]
    /\ lburst' = [lburst EXCEPT ![p] = 0]
    /\ llimiter' = [llimiter EXCEPT ![p] = NoLimiter]
    /\ lexists' = [lexists EXCEPT ![p] = FALSE]
    /\ lpc' = [lpc EXCEPT ![p] = "allow"]
    /\ UNCHANGED <<genVars, uniqVars, svcVars, shutVars, wkVars, limiters, objs, nextId, lkey, allowed, created>>

\* a slip: Allow admits and leaves the token in the bucket
AllowAdmitKeepsToken(p) ==
    /\ lpc[p] = "allow" /\ objs[handle[p]].tokens >= 1
    /\ allowed' = [allowed EXCEPT ![p] = "true"]
    /\ lpc' = [lpc EXCEPT ![p] = "respond"]
    /\ UNCHANGED <<genVars, uniqVars, svcVars, shutVars, wkVars, mutex, limiters, objs, nextId, lkey, lrate,
                   lburst, llimiter, lexists, handle, created, handed>>

\* a slip: one bucket for all clients, the token is taken from every limiter
AllowAdmitDrainsAll(p) ==
    /\ lpc[p] = "allow" /\ objs[handle[p]].tokens >= 1
    /\ objs' = [n \in DOMAIN objs |->
                  [objs[n] EXCEPT !.tokens = IF @ >= 1 THEN @ - 1 ELSE @]]
    /\ allowed' = [allowed EXCEPT ![p] = "true"]
    /\ lpc' = [lpc EXCEPT ![p] = "respond"]
    /\ UNCHANGED <<genVars, uniqVars, svcVars, shutVars, wkVars, mutex, limiters, nextId, lkey, lrate, lburst,
                   llimiter, lexists, handle, created, handed>>

\* limiter.Allow() with a token in the bucket: the token is taken
AllowAdmit(p) ==
    /\ lpc[p] = "allow" /\ objs[handle[p]].tokens >= 1
    /\ objs' = [objs EXCEPT ![handle[p]].tokens = @ - 1]
    /\ allowed' = [allowed EXCEPT ![p] = "true"]
    /\ lpc' = [lpc EXCEPT ![p] = "respond"]
    /\ UNCHANGED <<genVars, uniqVars, svcVars, shutVars, wkVars, mutex, limiters, nextId, lkey, lrate, lburst,
                   llimiter, lexists, handle, created, handed>>

\* limiter.Allow() with an empty bucket: nothing is taken
AllowReject(p) ==
    /\ lpc[p] = "allow" /\ objs[handle[p]].tokens < 1
    /\ allowed' = [allowed EXCEPT ![p] = "false"]
    /\ lpc' = [lpc EXCEPT ![p] = "respond"]
    /\ UNCHANGED <<genVars, uniqVars, svcVars, shutVars, wkVars, mutex, limiters, objs, nextId, lkey, lrate,
                   lburst, llimiter, lexists, handle, created, handed>>

\* a slip: the handler that ends takes its key's limiter out of the map
RespondEvicts(p) ==
    /\ lpc[p] = "respond"
    /\ limiters' = [limiters EXCEPT ![lkey[p]] = NoLimiter]
    /\ lkey' = [lkey EXCEPT ![p] = ""]
    /\ handle' = [handle EXCEPT ![p] = NoLimiter]
    /\ allowed' = [allowed EXCEPT ![p] = "none"]
    /\ lpc' = [lpc EXCEPT ![p] = "idle"]
    /\ UNCHANGED <<genVars, uniqVars, svcVars, shutVars, wkVars, mutex, objs, nextId, lrate,
                   lburst, llimiter, lexists, created, handed>>

\* the handler answers and ends; its locals are gone
Respond(p) ==
    /\ lpc[p] = "respond"
    /\ lkey' = [lkey EXCEPT ![p] = ""]
    /\ handle' = [handle EXCEPT ![p] = NoLimiter]
    /\ allowed' = [allowed EXCEPT ![p] = "none"]
    /\ lpc' = [lpc EXCEPT ![p] = "idle"]
    /\ UNCHANGED <<genVars, uniqVars, svcVars, shutVars, wkVars, mutex, limiters, objs, nextId, lrate, lburst,
                   llimiter, lexists, created, handed>>

\* one second passes: every bucket refills at its rate
Tick ==
    /\ \E n \in DOMAIN objs : objs[n].tokens < objs[n].burst
    /\ objs' = [n \in DOMAIN objs |-> Refill(objs[n])]
    /\ UNCHANGED <<genVars, uniqVars, svcVars, shutVars, wkVars, mutex, limiters, nextId, lpc, lkey, lrate,
                   lburst, llimiter, lexists, handle, allowed, created, handed>>

InitLimiter ==
    /\ mutex = {}
    /\ limiters = [k \in Keys |-> NoLimiter]
    /\ objs = << >>
    /\ nextId = 1
    /\ lpc = [p \in Procs |-> "idle"]
    /\ lkey = [p \in Procs |-> ""]
    /\ lrate = [p \in Procs |-> 0]
    /\ lburst = [p \in Procs |-> 0]
    /\ llimiter = [p \in Procs |-> NoLimiter]
    /\ lexists = [p \in Procs |-> FALSE]
    /\ handle = [p \in Procs |-> NoLimiter]
    /\ allowed = [p \in Procs |-> "none"]
    /\ created = [k \in Keys |-> 0]
    /\ handed = [k \in Keys |-> {}]
    /\ GenIdle /\ UniqIdle /\ SvcIdle /\ ShutIdle /\ WkIdle

NextLimiter ==
    \/ \E p \in Procs : Call(p)
    \/ \E p \in Procs : Lock(p)
    \/ \E p \in Procs : Check(p)
    \/ \E p \in Procs : Insert(p)
    \/ \E p \in Procs : Skip(p)
    \/ \E p \in Procs : Return(p)
    \/ \E p \in Procs : AllowAdmit(p)
    \/ \E p \in Procs : AllowReject(p)
    \/ \E p \in Procs : Respond(p)
    \/ Tick

SpecLimiter == InitLimiter /\ [][NextLimiter]_vars

----------------------------------------------------------------------------
(* The gin routes: InternalOnly, applyRateLimit, the four handlers and the *)
(* datastore calls they make, concurrent requests stepping one datastore   *)
(* or limiter call at a time                                               *)

\* requests in flight at the same time
Reqs == {"r1", "r2"}

\* short IDs (generateShortID asks for five characters)
IDs == {"aB3xY", "Zk9_q"}

URLs == {"https://a.example/", "https://b.example/"}

\* a URL string isValidURL refuses
InvalidURL == "not a url"

\* ds holds this where there is no entity
NoURL == ""

\* the value of INTERNAL_SECRET_VALUE; init panics when it is empty
internalSecretValue == "s3cret"

\* X-Internal-Secret as requests send it: missing, matching, wrong
Headers == {"", "s3cret", "guess"}

\* hdr before InternalOnly has read the header
Unread == "unread"

\* applyRateLimit: NewRateLimiter(key, rate.Limit(5), 10)
RateLimit == 5
RateBurst == 10

\* u.Scheme != "" && u.Host != "" after url.ParseRequestURI
isValidURL(u) == u \in URLs

\* IDs that have an entity
Stored == { k \in IDs : ds[k] # NoURL }

\* the router dispatches a request to its route's chain
Arrive(p) ==
    /\ rpc[p] = "idle"
    /\ \E m \in {"GET", "POST", "PUT", "DELETE"} :
          /\ route' = [route EXCEPT ![p] = m]
          /\ rpc' = [rpc EXCEPT ![p] = IF m = "GET" THEN "ratelimit" ELSE "middleware"]
    /\ UNCHANGED <<genVars, uniqVars, limVars, shutVars, wkVars, ds, bucket, registered, hdr, admit, rid,
                   rold, rnew, rerr, status, touched>>

\* a slip: the middleware answers 403 and goes on to c.Next()
InternalOnlyForbiddenNext(p) ==
    /\ rpc[p] = "middleware"
    /\ \E h \in Headers :
          /\ h # internalSecretValue
          /\ hdr' = [hdr EXCEPT ![p] = h]
    /\ status' = [status EXCEPT ![p] = 403]
    /\ rpc' = [rpc EXCEPT ![p] = "handler"]
    /\ UNCHANGED <<genVars, uniqVars, limVars, shutVars, wkVars, ds, bucket, registered, route, admit, rid,
                   rold, rnew, rerr, touched>>

\* a slip: applyRateLimit is asked before the header is compared
InternalOnlyLimitsFirst(p) ==
    /\ rpc[p] = "middleware"
    /\ \E h \in Headers :
          /\ h # internalSecretValue
          /\ hdr' = [hdr EXCEPT ![p] = h]
    /\ bucket >= 1
    /\ bucket' = bucket - 1
    /\ registered' = TRUE
    /\ status' = [status EXCEPT ![p] = 403]
    /\ rpc' = [rpc EXCEPT ![p] = "respond"]
    /\ UNCHANGED <<genVars, uniqVars, limVars, shutVars, wkVars, ds, route, admit, rid,
                   rold, rnew, rerr, touched>>

\* InternalOnly: the header is not the secret, AbortWithStatusJSON(403), return
InternalOnlyForbidden(p) ==
    /\ rpc[p] = "middleware"
    /\ \E h \in Headers :
          /\ h # internalSecretValue
          /\ hdr' = [hdr EXCEPT ![p] = h]
    /\ status' = [status EXCEPT ![p] = 403]
    /\ rpc' = [rpc EXCEPT ![p] = "respond"]
    /\ UNCHANGED <<genVars, uniqVars, limVars, shutVars, wkVars, ds, bucket, registered, route, admit, rid,
                   rold, rnew, rerr, touched>>

\* InternalOnly: the secret matches, applyRateLimit answers 404 and returns false
InternalOnlyLimited(p) ==
    /\ rpc[p] = "middleware"
    /\ \E h \in Headers :
          /\ h = internalSecretValue
          /\ hdr' = [hdr EXCEPT ![p] = h]
    /\ bucket < 1
    /\ admit' = [admit EXCEPT ![p] = "false"]
    /\ status' = [status EXCEPT ![p] = 404]
    /\ rpc' = [rpc EXCEPT ![p] = "respond"]
    /\ registered' = TRUE
    /\ UNCHANGED <<genVars, uniqVars, limVars, shutVars, wkVars, ds, bucket, route, rid, rold,
                   rnew, rerr, touched>>

\* InternalOnly: the secret matches, the limiter admits, c.Next()
InternalOnlyNext(p) ==
    /\ rpc[p] = "middleware"
    /\ \E h \in Headers :
          /\ h = internalSecretValue
          /\ hdr' = [hdr EXCEPT ![p] = h]
    /\ bucket >= 1
    /\ bucket' = bucket - 1
    /\ admit' = [admit EXCEPT ![p] = "true"]
    /\ rpc' = [rpc EXCEPT ![p] = "handler"]
    /\ registered' = TRUE
    /\ UNCHANGED <<genVars, uniqVars, limVars, shutVars, wkVars, ds, route, rid, rold, rnew,
                   rerr, status, touched>>

\* a slip: the rejected request is answered and the handler goes on
GetLimitedGoesOn(p) ==
    /\ rpc[p] = "ratelimit" /\ bucket < 1
    /\ admit' = [admit EXCEPT ![p] = "false"]
    /\ status' = [status EXCEPT ![p] = 404]
    /\ rpc' = [rpc EXCEPT ![p] = "lookup"]
    /\ registered' = TRUE
    /\ UNCHANGED <<genVars, uniqVars, limVars, shutVars, wkVars, ds, bucket, route, hdr, rid,
                   rold, rnew, rerr, touched>>

\* getURLHandlerGin: applyRateLimit answers 404 and returns false, return
GetLimited(p) ==
    /\ rpc[p] = "ratelimit" /\ bucket < 1
    /\ admit' = [admit EXCEPT ![p] = "false"]
    /\ status' = [status EXCEPT ![p] = 404]
    /\ rpc' = [rpc EXCEPT ![p] = "respond"]
    /\ registered' = TRUE
    /\ UNCHANGED <<genVars, uniqVars, limVars, shutVars, wkVars, ds, bucket, route, hdr, rid,
                   rold, rnew, rerr, touched>>

\* getURLHandlerGin: applyRateLimit returns true, a token is taken
GetAdmitted(p) ==
    /\ rpc[p] = "ratelimit" /\ bucket >= 1
    /\ bucket' = bucket - 1
    /\ admit' = [admit EXCEPT ![p] = "true"]
    /\ rpc' = [rpc EXCEPT ![p] = "lookup"]
    /\ registered' = TRUE
    /\ UNCHANGED <<genVars, uniqVars, limVars, shutVars, wkVars, ds, route, hdr, rid, rold,
                   rnew, rerr, status, touched>>

\* a slip: every error of the lookup is answered as an internal error
handleGetURLErrorAlways500(a) == 500

\* handleGetURLError: 404 for ErrNotFound, 500 for any other error
handleGetURLError(a) == IF a = "notfound" THEN 404 ELSE 500

\* getURLHandlerGin: GetURL, then the redirect or handleGetURLError
GetLookup(p) ==
    /\ rpc[p] = "lookup"
    /\ \E k \in IDs :
        \E a \in GetURL(Stored, k, FALSE) :
          /\ rid' = [rid EXCEPT ![p] = k]
          /\ rerr' = [rerr EXCEPT ![p] =
                        IF a = "found" THEN "none"
                        ELSE IF a = "notfound" THEN "notfound" ELSE "other"]
          /\ status' = [status EXCEPT ![p] =
                        IF a = "found" THEN 302 ELSE handleGetURLError(a)]
    /\ touched' = [touched EXCEPT ![p] = TRUE]
    /\ rpc' = [rpc EXCEPT ![p] = "respond"]
    /\ UNCHANGED <<genVars, uniqVars, limVars, shutVars, wkVars, ds, bucket, registered, route, hdr, admit,
                   rold, rnew>>

\* postURLHandlerGin: extractURL, 400 when the body does not bind or the URL
\* is empty or invalid
PostExtract(p) ==
    /\ rpc[p] = "handler" /\ route[p] = "POST"
    /\ \E binds \in BOOLEAN, u \in URLs \cup {InvalidURL, ""} :
          IF ~binds \/ u = "" \/ ~isValidURL(u)
          THEN /\ status' = [status EXCEPT ![p] = 400]
               /\ rpc' = [rpc EXCEPT ![p] = "respond"]
               /\ rnew' = rnew
          ELSE /\ rnew' = [rnew EXCEPT ![p] = u]
               /\ rpc' = [rpc EXCEPT ![p] = "generate"]
               /\ status' = status
    /\ UNCHANGED <<genVars, uniqVars, limVars, shutVars, wkVars, ds, bucket, registered, route, hdr, admit,
                   rid, rold, rerr, touched>>

\* generateShortID: an attempt whose candidate GetURL finds, the loop goes on
PostGenerateCollision(p) ==
    /\ rpc[p] = "generate"
    /\ \E c \in IDs : "found" \in GetURL(Stored, c, FALSE)
    /\ touched' = [touched EXCEPT ![p] = TRUE]
    /\ UNCHANGED <<genVars, uniqVars, limVars, shutVars, wkVars, ds, bucket, registered, rpc, route, hdr,
                   admit, rid, rold, rnew, rerr, status>>

\* generateShortID returns an error (the random source, a failed lookup, or
\* the attempts used up): 500
PostGenerateFail(p) ==
    /\ rpc[p] = "generate"
    /\ \E lookedUpFirst \in BOOLEAN :
          touched' = [touched EXCEPT ![p] = @ \/ lookedUpFirst]
    /\ status' = [status EXCEPT ![p] = 500]
    /\ rpc' = [rpc EXCEPT ![p] = "respond"]
    /\ UNCHANGED <<genVars, uniqVars, limVars, shutVars, wkVars, ds, bucket, registered, route, hdr, admit,
                   rid, rold, rnew, rerr>>

\* generateShortID: GetURL answers ErrNotFound for the candidate, it is returned
PostGenerateUnique(p) ==
    /\ rpc[p] = "generate"
    /\ \E c \in IDs :
          /\ "notfound" \in GetURL(Stored, c, FALSE)
          /\ rid' = [rid EXCEPT ![p] = c]
    /\ touched' = [touched EXCEPT ![p] = TRUE]
    /\ rpc' = [rpc EXCEPT ![p] = "save"]
    /\ UNCHANGED <<genVars, uniqVars, limVars, shutVars, wkVars, ds, bucket, registered, route, hdr, admit,
                   rold, rnew, rerr, status>>

\* a slip: the save is made only where the ID has no entity yet
PostSaveIfAbsent(p) ==
    /\ rpc[p] = "save"
    /\ ds[rid[p]] = NoURL
    /\ ds' = [ds EXCEPT ![rid[p]] = rnew[p]]
    /\ touched' = [touched EXCEPT ![p] = TRUE]
    /\ status' = [status EXCEPT ![p] = 200]
    /\ rpc' = [rpc EXCEPT ![p] = "respond"]
    /\ UNCHANGED <<genVars, uniqVars, limVars, shutVars, wkVars, bucket, registered, route, hdr, admit, rid,
                   rold, rnew, rerr>>

\* saveURL: SaveURL puts the entity under the ID, 200
PostSave(p) ==
    /\ rpc[p] = "save"
    /\ ds' = [ds EXCEPT ![rid[p]] = rnew[p]]
    /\ touched' = [touched EXCEPT ![p] = TRUE]
    /\ status' = [status EXCEPT ![p] = 200]
    /\ rpc' = [rpc EXCEPT ![p] = "respond"]
    /\ UNCHANGED <<genVars, uniqVars, limVars, shutVars, wkVars, bucket, registered, route, hdr, admit, rid,
                   rold, rnew, rerr>>

\* saveURL: the Put fails, 500
PostSaveFail(p) ==
    /\ rpc[p] = "save"
    /\ touched' = [touched EXCEPT ![p] = TRUE]
    /\ status' = [status EXCEPT ![p] = 500]
    /\ rpc' = [rpc EXCEPT ![p] = "respond"]
    /\ UNCHANGED <<genVars, uniqVars, limVars, shutVars, wkVars, ds, bucket, registered, route, hdr, admit,
                   rid, rold, rnew, rerr>>

\* a slip: the IDs are compared, the difference is noted, and the edit goes
\* on with the ID of the path
PutValidateGoesOn(p) ==
    /\ rpc[p] = "handler" /\ route[p] = "PUT"
    /\ \E binds \in BOOLEAN, pathID \in IDs, reqID \in IDs, old \in URLs, new \in URLs :
          IF ~binds
          THEN /\ status' = [status EXCEPT ![p] = 400]
               /\ rerr' = [rerr EXCEPT ![p] = "bind"]
               /\ rpc' = [rpc EXCEPT ![p] = "respond"]
               /\ UNCHANGED <<rid, rold, rnew>>
          ELSE /\ rid' = [rid EXCEPT ![p] = pathID]
               /\ rold' = [rold EXCEPT ![p] = old]
               /\ rnew' = [rnew EXCEPT ![p] = new]
               /\ rerr' = [rerr EXCEPT ![p] =
                             IF pathID # reqID THEN "idmismatch" ELSE "none"]
               /\ rpc' = [rpc EXCEPT ![p] = "read"]
               /\ status' = status
    /\ UNCHANGED <<genVars, uniqVars, limVars, shutVars, wkVars, ds, bucket, registered, route, hdr, admit,
                   touched>>

\* editURLHandlerGin: validateUpdateRequest, 400 when the body does not bind
\* or pathID != req.ID
PutValidate(p) ==
    /\ rpc[p] = "handler" /\ route[p] = "PUT"
    /\ \E binds \in BOOLEAN, pathID \in IDs, reqID \in IDs, old \in URLs, new \in URLs :
          IF ~binds \/ pathID # reqID
          THEN /\ status' = [status EXCEPT ![p] = 400]
               /\ rerr' = [rerr EXCEPT ![p] = IF ~binds THEN "bind" ELSE "idmismatch"]
               /\ rpc' = [rpc EXCEPT ![p] = "respond"]
               /\ UNCHANGED <<rid, rold, rnew>>
          ELSE /\ rid' = [rid EXCEPT ![p] = pathID]
               /\ rold' = [rold EXCEPT ![p] = old]
               /\ rnew' = [rnew EXCEPT ![p] = new]
               /\ rpc' = [rpc EXCEPT ![p] = "read"]
               /\ UNCHANGED <<rerr, status>>
    /\ UNCHANGED <<genVars, uniqVars, limVars, shutVars, wkVars, ds, bucket, registered, route, hdr, admit,
                   touched>>

\* updateURL: GetURL, then currentURL.Original != req.OldURL; handleUpdateError
\* answers 404 for ErrNotFound, 400 for the URL mismatch, 500 otherwise
PutRead(p) ==
    /\ rpc[p] = "read" /\ route[p] = "PUT"
    /\ \E a \in GetURL(Stored, rid[p], FALSE) :
          IF a = "found" /\ ds[rid[p]] = rold[p]
          THEN /\ rpc' = [rpc EXCEPT ![p] = "update"]
               /\ UNCHANGED <<rerr, status>>
          ELSE /\ rerr' = [rerr EXCEPT ![p] =
                             IF a = "found" THEN "mismatch"
                             ELSE IF a = "notfound" THEN "notfound" ELSE "other"]
               /\ status' = [status EXCEPT ![p] =
                             IF a = "found" THEN 400
                             ELSE IF a = "notfound" THEN 404 ELSE 500]
               /\ rpc' = [rpc EXCEPT ![p] = "respond"]
    /\ touched' = [touched EXCEPT ![p] = TRUE]
    /\ UNCHANGED <<genVars, uniqVars, limVars, shutVars, wkVars, ds, bucket, registered, route, hdr, admit,
                   rid, rold, rnew>>

\* a slip: the transaction puts the entity without getting it first
PutUpdateUpserts(p) ==
    /\ rpc[p] = "update"
    /\ \E commits \in BOOLEAN :
          IF ~commits
          THEN /\ status' = [status EXCEPT ![p] = 500]
               /\ rerr' = [rerr EXCEPT ![p] = "other"]
               /\ ds' = ds
          ELSE /\ ds' = [ds EXCEPT ![rid[p]] = rnew[p]]
               /\ status' = [status EXCEPT ![p] = 200]
               /\ rerr' = rerr
    /\ touched' = [touched EXCEPT ![p] = TRUE]
    /\ rpc' = [rpc EXCEPT ![p] = "respond"]
    /\ UNCHANGED <<genVars, uniqVars, limVars, shutVars, wkVars, bucket, registered, route, hdr, admit, rid,
                   rold, rnew>>

\* datastore.UpdateURL: one transaction that gets the entity, sets Original
\* and puts it; ErrNotFound (404) when the entity is gone, 500 when the
\* transaction fails
PutUpdate(p) ==
    /\ rpc[p] = "update"
    /\ \E commits \in BOOLEAN :
          IF ~commits
          THEN /\ status' = [status EXCEPT ![p] = 500]
               /\ rerr' = [rerr EXCEPT ![p] = "other"]
               /\ ds' = ds
          ELSE IF ds[rid[p]] = NoURL
          THEN /\ status' = [status EXCEPT ![p] = 404]
               /\ rerr' = [rerr EXCEPT ![p] = "notfound"]
               /\ ds' = ds
          ELSE /\ ds' = [ds EXCEPT ![rid[p]] = rnew[p]]
               /\ status' = [status EXCEPT ![p] = 200]
               /\ rerr' = rerr
    /\ touched' = [touched EXCEPT ![p] = TRUE]
    /\ rpc' = [rpc EXCEPT ![p] = "respond"]
    /\ UNCHANGED <<genVars, uniqVars, limVars, shutVars, wkVars, bucket, registered, route, hdr, admit, rid,
                   rold, rnew>>

\* validateAndDeleteURL up to deleteURL: 400 through handleDeletionError when
\* the body does not bind or the IDs differ; for the invalid URL no case of
\* handleDeletionError writes a response and gin sends its default 200
DeleteValidate(p) ==
    /\ rpc[p] = "handler" /\ route[p] = "DELETE"
    /\ \E binds \in BOOLEAN, pathID \in IDs, reqID \in IDs, u \in URLs \cup {InvalidURL} :
          IF ~binds \/ pathID # reqID
          THEN /\ status' = [status EXCEPT ![p] = 400]
               /\ rerr' = [rerr EXCEPT ![p] = IF ~binds THEN "bind" ELSE "idmismatch"]
               /\ rpc' = [rpc EXCEPT ![p] = "respond"]
               /\ UNCHANGED <<rid, rold>>
          ELSE IF ~isValidURL(u)
          THEN /\ status' = [status EXCEPT ![p] = 200]
               /\ rerr' = [rerr EXCEPT ![p] = "invalidurl"]
               /\ rpc' = [rpc EXCEPT ![p] = "respond"]
               /\ UNCHANGED <<rid, rold>>
          ELSE /\ rid' = [rid EXCEPT ![p] = reqID]
               /\ rold' = [rold EXCEPT ![p] = u]
               /\ rpc' = [rpc EXCEPT ![p] = "read"]
               /\ UNCHANGED <<rerr, status>>
    /\ UNCHANGED <<genVars, uniqVars, limVars, shutVars, wkVars, ds, bucket, registered, route, hdr, admit,
                   rnew, touched>>

\* deleteURL: getCurrentURL, then currentURL.Original != providedURL;
\* handleDeletionError answers 404 for ErrNotFound and 400 for the URL
\* mismatch, and writes nothing for the wrapped retrieval error (default 200)
DeleteRead(p) ==
    /\ rpc[p] = "read" /\ route[p] = "DELETE"
    /\ \E a \in GetURL(Stored, rid[p], FALSE) :
          IF a = "found" /\ ds[rid[p]] = rold[p]
          THEN /\ rpc' = [rpc EXCEPT ![p] = "delete"]
               /\ UNCHANGED <<rerr, status>>
          ELSE /\ rerr' = [rerr EXCEPT ![p] =
                             IF a = "found" THEN "mismatch"
                             ELSE IF a = "notfound" THEN "notfound" ELSE "other"]
               /\ status' = [status EXCEPT ![p] =
                             IF a = "found" THEN 400
                             ELSE IF a = "notfound" THEN 404 ELSE 200]
               /\ rpc' = [rpc EXCEPT ![p] = "respond"]
    /\ touched' = [touched EXCEPT ![p] = TRUE]
    /\ UNCHANGED <<genVars, uniqVars, limVars, shutVars, wkVars, ds, bucket, registered, route, hdr, admit,
                   rid, rold, rnew>>

\* performDelete: DeleteURL removes the entity, 200; its wrapped error matches
\* no case of handleDeletionError (default 200)
DeletePerform(p) ==
    /\ rpc[p] = "delete"
    /\ \E deletes \in BOOLEAN :
          IF deletes
          THEN ds' = [ds EXCEPT ![rid[p]] = NoURL] /\ rerr' = rerr
          ELSE ds' = ds /\ rerr' = [rerr EXCEPT ![p] = "other"]
    /\ status' = [status EXCEPT ![p] = 200]
    /\ touched' = [touched EXCEPT ![p] = TRUE]
    /\ rpc' = [rpc EXCEPT ![p] = "respond"]
    /\ UNCHANGED <<genVars, uniqVars, limVars, shutVars, wkVars, bucket, registered, route, hdr, admit, rid,
                   rold, rnew>>

\* the response is sent and the request's context is gone
Finish(p) ==
    /\ rpc[p] = "respond"
    /\ rpc' = [rpc EXCEPT ![p] = "idle"]
    /\ route' = [route EXCEPT ![p] = ""]
    /\ hdr' = [hdr EXCEPT ![p] = Unread]
    /\ admit' = [admit EXCEPT ![p] = "none"]
    /\ rid' = [rid EXCEPT ![p] = ""]
    /\ rold' = [rold EXCEPT ![p] = ""]
    /\ rnew' = [rnew EXCEPT ![p] = ""]
    /\ rerr' = [rerr EXCEPT ![p] = "none"]
    /\ status' = [status EXCEPT ![p] = 0]
    /\ touched' = [touched EXCEPT ![p] = FALSE]
    /\ UNCHANGED <<genVars, uniqVars, limVars, shutVars, wkVars, ds, bucket, registered>>

\* one second passes: the client's bucket refills at its rate
BucketTick ==
    /\ bucket < RateBurst
    /\ bucket' = Refill([rate |-> RateLimit, burst |-> RateBurst,
                         tokens |-> bucket]).tokens
    /\ UNCHANGED <<genVars, uniqVars, limVars, shutVars, wkVars, ds, registered, rpc, route, hdr, admit,
                   rid, rold, rnew, rerr, status, touched>>

InitService ==
    /\ ds \in [IDs -> URLs \cup {NoURL}]
    /\ bucket = RateBurst
    /\ registered = FALSE
    /\ rpc = [p \in Reqs |-> "idle"]
    /\ route = [p \in Reqs |-> ""]
    /\ hdr = [p \in Reqs |-> Unread]
    /\ admit = [p \in Reqs |-> "none"]
    /\ rid = [p \in Reqs |-> ""]
    /\ rold = [p \in Reqs |-> ""]
    /\ rnew = [p \in Reqs |-> ""]
    /\ rerr = [p \in Reqs |-> "none"]
    /\ status = [p \in Reqs |-> 0]
    /\ touched = [p \in Reqs |-> FALSE]
    /\ GenIdle /\ UniqIdle /\ LimIdle /\ ShutIdle /\ WkIdle

NextService ==
    \/ \E p \in Reqs : Arrive(p)
    \/ \E p \in Reqs : InternalOnlyForbidden(p)
    \/ \E p \in Reqs : InternalOnlyLimited(p)
    \/ \E p \in Reqs : InternalOnlyNext(p)
    \/ \E p \in Reqs : GetLimited(p)
    \/ \E p \in Reqs : GetAdmitted(p)
    \/ \E p \in Reqs : GetLookup(p)
    \/ \E p \in Reqs : PostExtract(p)
    \/ \E p \in Reqs : PostGenerateCollision(p)
    \/ \E p \in Reqs : PostGenerateFail(p)
    \/ \E p \in Reqs : PostGenerateUnique(p)
    \/ \E p \in Reqs : PostSave(p)
    \/ \E p \in Reqs : PostSaveFail(p)
    \/ \E p \in Reqs : PutValidate(p)
    \/ \E p \in Reqs : PutRead(p)
    \/ \E p \in Reqs : PutUpdate(p)
    \/ \E p \in Reqs : DeleteValidate(p)
    \/ \E p \in Reqs : DeleteRead(p)
    \/ \E p \in Reqs : DeletePerform(p)
    \/ \E p \in Reqs : Finish(p)
    \/ BucketTick

SpecService == InitService /\ [][NextService]_vars

----------------------------------------------------------------------------
(* startServer: the goroutine runServer, waitForShutdownSignal and          *)
(* cleanupResources, up to the exit of the process                          *)

\* requests served at the same time
MaxActive == 2

\* context.WithTimeout(context.Background(), 10*time.Second)
ShutdownTimeout == 10

\* signal.Notify(quit, os.Interrupt, syscall.SIGTERM)
Signals == {"SIGINT", "SIGTERM"}

\* runServer: server.ListenAndServe() has bound its port and serves
ListenAndServe ==
    /\ exited = "running" /\ server = "new"
    /\ server' = "listening"
    /\ UNCHANGED <<genVars, uniqVars, limVars, svcVars, wkVars, mainpc, active, quit,
                   received, elapsed, dsClient, exited>>

\* runServer: ListenAndServe returns an error other than ErrServerClosed,
\* os.Exit(1)
ListenAndServeFails ==
    /\ exited = "running" /\ server = "new"
    /\ exited' = "exit1"
    /\ UNCHANGED <<genVars, uniqVars, limVars, svcVars, wkVars, mainpc, server, active, quit,
                   received, elapsed, dsClient>>

\* the server accepts a request
RequestBegins ==
    /\ exited = "running" /\ server = "listening"
    /\ active < MaxActive
    /\ active' = active + 1
    /\ UNCHANGED <<genVars, uniqVars, limVars, svcVars, wkVars, mainpc, server, quit,
                   received, elapsed, dsClient, exited>>

\* a request is answered and its connection goes idle
RequestEnds ==
    /\ exited = "running" /\ active > 0
    /\ active' = active - 1
    /\ UNCHANGED <<genVars, uniqVars, limVars, svcVars, wkVars, mainpc, server, quit,
                   received, elapsed, dsClient, exited>>

\* the process is sent SIGINT or SIGTERM; quit has room for one signal
SignalArrives ==
    /\ exited = "running" /\ Len(quit) < 1
    /\ \E s \in Signals : quit' = Append(quit, s)
    /\ UNCHANGED <<genVars, uniqVars, limVars, svcVars, wkVars, mainpc, server, active,
                   received, elapsed, dsClient, exited>>

\* waitForShutdownSignal: s := <-quit
ReceiveSignal ==
    /\ exited = "running" /\ mainpc = "wait" /\ Len(quit) > 0
    /\ received' = Head(quit) /\ quit' = Tail(quit)
    /\ mainpc' = "shutdown"
    /\ UNCHANGED <<genVars, uniqVars, limVars, svcVars, wkVars, server, active, elapsed,
                   dsClient, exited>>

\* server.Shutdown(ctx) closes the listeners; the ten seconds start
ShutdownCloses ==
    /\ exited = "running" /\ mainpc = "shutdown"
    /\ server \in {"new", "listening"}
    /\ server' = "closing" /\ elapsed' = 0
    /\ UNCHANGED <<genVars, uniqVars, limVars, svcVars, wkVars, mainpc, active, quit,
                   received, dsClient, exited>>

\* one second of the shutdown's context passes
SecondPasses ==
    /\ exited = "running" /\ mainpc = "shutdown" /\ server = "closing"
    /\ elapsed < ShutdownTimeout
    /\ elapsed' = elapsed + 1
    /\ UNCHANGED <<genVars, uniqVars, limVars, svcVars, wkVars, mainpc, server, active, quit,
                   received, dsClient, exited>>

\* server.Shutdown returns nil: no connection is active any more
ShutdownReturns ==
    /\ exited = "running" /\ mainpc = "shutdown" /\ server = "closing"
    /\ active = 0
    /\ server' = "closed" /\ mainpc' = "cleanup"
    /\ UNCHANGED <<genVars, uniqVars, limVars, svcVars, wkVars, active, quit, received,
                   elapsed, dsClient, exited>>

\* server.Shutdown returns ctx's error with requests still active:
\* logger.Fatal ends the process
ShutdownTimesOut ==
    /\ exited = "running" /\ mainpc = "shutdown" /\ server = "closing"
    /\ active > 0 /\ elapsed = ShutdownTimeout
    /\ exited' = "fatal"
    /\ UNCHANGED <<genVars, uniqVars, limVars, svcVars, wkVars, mainpc, server, active, quit,
                   received, elapsed, dsClient>>

\* cleanupResources: datastore.CloseClient, its error is only logged
CleanupResources ==
    /\ exited = "running" /\ mainpc = "cleanup"
    /\ \E closes \in BOOLEAN :
          dsClient' = IF closes THEN "closed" ELSE "closeFailed"
    /\ mainpc' = "return"
    /\ UNCHANGED <<genVars, uniqVars, limVars, svcVars, wkVars, server, active, quit,
                   received, elapsed, exited>>

\* startServer returns to main and the process ends
MainReturns ==
    /\ exited = "running" /\ mainpc = "return"
    /\ exited' = "returned"
    /\ UNCHANGED <<genVars, uniqVars, limVars, svcVars, wkVars, mainpc, server, active, quit,
                   received, elapsed, dsClient>>

InitShutdown ==
    /\ mainpc = "wait" /\ server = "new" /\ active = 0 /\ quit = << >>
    /\ received = "" /\ elapsed = 0 /\ dsClient = "open" /\ exited = "running"
    /\ GenIdle /\ UniqIdle /\ LimIdle /\ SvcIdle /\ WkIdle

NextShutdown ==
    \/ ListenAndServe \/ ListenAndServeFails
    \/ RequestBegins \/ RequestEnds
    \/ SignalArrives \/ ReceiveSignal
    \/ ShutdownCloses \/ SecondPasses \/ ShutdownReturns \/ ShutdownTimesOut
    \/ CleanupResources \/ MainReturns

SpecShutdown == InitShutdown /\ [][NextShutdown]_vars

----------------------------------------------------------------------------
(* workerk8s.RunWorkers: the worker goroutines, the shutdown function it   *)
(* returns and the caller ranging over the unbuffered results channel      *)

\* workerCount
NumWorkers == 2
\* most pods a worker's List returns
MaxPods == 2
\* most calls of the shutdown function
MaxShutdownCalls == 2

Workers == 1..NumWorkers

\* the worker is blocked in a send on results
Sending(w) == wpc[w] \in {"sendErr", "sendStatus", "sendCancel"}

\* wg.Wait() returns: every worker has made its wg.Done()
WaitReturns == \A w \in Workers : wpc[w] = "done"

\* Worker: getPods returns the pods of the namespace, or an error whose
\* message the worker then sends
WorkerList(w) ==
    /\ panicked = "none" /\ wpc[w] = "list"
    /\ \/ /\ wpc' = [wpc EXCEPT ![w] = "sendErr"]
          /\ left' = left
       \/ \E n \in 0..MaxPods :
            /\ left' = [left EXCEPT ![w] = n]
            /\ wpc' = [wpc EXCEPT ![w] = "loop"]
    /\ UNCHANGED <<genVars, uniqVars, limVars, svcVars, shutVars, cancelMsgs, ctxDone,
                   shutdownCalls, closers, closed, consumer, panicked>>

\* processPods: the range ends (the worker returns, wg.Done()), or the
\* select takes <-ctx.Done() when the context is cancelled and default
\* otherwise
WorkerLoop(w) ==
    /\ panicked = "none" /\ wpc[w] = "loop"
    /\ wpc' = [wpc EXCEPT ![w] =
                 IF left[w] = 0 THEN "done"
                 ELSE IF ctxDone THEN "sendCancel" ELSE "sendStatus"]
    /\ UNCHANGED <<genVars, uniqVars, limVars, svcVars, shutVars, left, cancelMsgs,
                   ctxDone, shutdownCalls, closers, closed, consumer, panicked>>

\* the caller's range receives what worker w sends: after the error or the
\* cancellation message the worker returns, after a status it goes on
Receive(w) ==
    /\ panicked = "none" /\ consumer = "ranging" /\ ~closed
    /\ Sending(w)
    /\ wpc' = [wpc EXCEPT ![w] = IF wpc[w] = "sendStatus" THEN "loop" ELSE "done"]
    /\ left' = [left EXCEPT ![w] = IF wpc[w] = "sendStatus" THEN @ - 1 ELSE @]
    /\ cancelMsgs' = [cancelMsgs EXCEPT ![w] = IF wpc[w] = "sendCancel" THEN @ + 1 ELSE @]
    /\ UNCHANGED <<genVars, uniqVars, limVars, svcVars, shutVars, ctxDone,
                   shutdownCalls, closers, closed, consumer, panicked>>

\* a slip: shutdown cancels the context and starts no goroutine to close
ShutdownOnlyCancels ==
    /\ panicked = "none" /\ shutdownCalls < MaxShutdownCalls
    /\ shutdownCalls' = shutdownCalls + 1
    /\ ctxDone' = TRUE
    /\ UNCHANGED <<genVars, uniqVars, limVars, svcVars, shutVars, wpc, left, cancelMsgs,
                   closers, closed, consumer, panicked>>

\* shutdown(): cancelFunc(), and a goroutine is started that waits and closes
Shutdown ==
    /\ panicked = "none" /\ shutdownCalls < MaxShutdownCalls
    /\ shutdownCalls' = shutdownCalls + 1
    /\ ctxDone' = TRUE
    /\ closers' = closers + 1
    /\ UNCHANGED <<genVars, uniqVars, limVars, svcVars, shutVars, wpc, left, cancelMsgs,
                   closed, consumer, panicked>>

\* the context handed to RunWorkers is cancelled by its owner
ParentCancelled ==
    /\ panicked = "none" /\ ~ctxDone
    /\ ctxDone' = TRUE
    /\ UNCHANGED <<genVars, uniqVars, limVars, svcVars, shutVars, wpc, left, cancelMsgs,
                   shutdownCalls, closers, closed, consumer, panicked>>

\* a slip: the goroutine closes results without waiting for the workers
CloserClosesAtOnce ==
    /\ panicked = "none" /\ closers > 0
    /\ ~closed
    /\ closed' = TRUE
    /\ closers' = closers - 1
    /\ UNCHANGED <<genVars, uniqVars, limVars, svcVars, shutVars, wpc, left, cancelMsgs,
                   ctxDone, shutdownCalls, consumer, panicked>>

\* shutdown's goroutine: wg.Wait() has returned, close(results)
CloserCloses ==
    /\ panicked = "none" /\ closers > 0
    /\ WaitReturns /\ ~closed
    /\ closed' = TRUE
    /\ closers' = closers - 1
    /\ UNCHANGED <<genVars, uniqVars, limVars, svcVars, shutVars, wpc, left, cancelMsgs,
                   ctxDone, shutdownCalls, consumer, panicked>>

\* the goroutine of a later shutdown call: close(results) on the closed
\* channel panics
CloserPanics ==
    /\ panicked = "none" /\ closers > 0
    /\ WaitReturns /\ closed
    /\ panicked' = "closeOfClosed"
    /\ closers' = closers - 1
    /\ UNCHANGED <<genVars, uniqVars, limVars, svcVars, shutVars, wpc, left, cancelMsgs,
                   ctxDone, shutdownCalls, closed, consumer>>

\* the caller's range finds results closed and ends
RangeEnds ==
    /\ panicked = "none" /\ consumer = "ranging" /\ closed
    /\ consumer' = "ended"
    /\ UNCHANGED <<genVars, uniqVars, limVars, svcVars, shutVars, wpc, left, cancelMsgs,
                   ctxDone, shutdownCalls, closers, closed, panicked>>

InitWorkers ==
    /\ wpc = [w \in Workers |-> "list"]
    /\ left = [w \in Workers |-> 0]
    /\ cancelMsgs = [w \in Workers |-> 0]
    /\ ctxDone = FALSE /\ shutdownCalls = 0 /\ closers = 0 /\ closed = FALSE
    /\ consumer = "ranging" /\ panicked = "none"
    /\ GenIdle /\ UniqIdle /\ LimIdle /\ SvcIdle /\ ShutIdle

NextWorkers ==
    \/ \E w \in Workers : WorkerList(w)
    \/ \E w \in Workers : WorkerLoop(w)
    \/ \E w \in Workers : Receive(w)
    \/ Shutdown \/ ParentCancelled
    \/ CloserCloses \/ CloserPanics
    \/ RangeEnds

SpecWorkers == InitWorkers /\ [][NextWorkers]_vars

\* The goroutines are scheduled: a worker, the closing goroutine and the
\* caller's range each take the step they can take.
SpecWorkersFair ==
    /\ SpecWorkers
    /\ \A w \in Workers :
          WF_vars(WorkerList(w)) /\ WF_vars(WorkerLoop(w)) /\ WF_vars(Receive(w))
    /\ WF_vars(CloserCloses) /\ WF_vars(CloserPanics) /\ WF_vars(RangeEnds)

----------------------------------------------------------------------------
(* Claims about Generate, checked under SpecGen *)

GenReturned == entry = "Generate" /\ gpc \in {"done", "panic"}

\* C9: for every length >= 1, Generate(length) ends without a panic and,
\* unless the random source failed, returns no error and a string of
\* exactly length characters.
C9_GenerateLength ==
    (GenReturned /\ length >= 1 /\ gerr # "random")
        => (gpc = "done" /\ gerr = "none" /\ Len(gout) = length)

\* Generate(9) has returned after the top-up loop ran (6 bytes encode to 8
\* characters only).
C9_Witness ==
    /\ entry = "Generate" /\ gpc = "done" /\ length = 9 /\ gerr = "none"
    /\ drawn > firstDraw /\ Len(gout) = 9

\* C10: Generate(length) with length <= 0 (0 and -1 among them) never reads
\* a random byte, never panics, and returns the length error with "".
C10_GenerateRejects ==
    (entry = "Generate" /\ length <= 0)
        => /\ gpc \in {"call", "done"}
           /\ drawn = 0 /\ firstDraw = -1
           /\ gpc = "done" => (gerr = "length" /\ gout = << >>)

\* Generate(0) has returned its error.
C10_Witness ==
    entry = "Generate" /\ length = 0 /\ gpc = "done" /\ gerr = "length"

\* the 64 data characters of base64url
DataChars == { Alphabet[n] : n \in 1..64 }

\* C11: for every length >= 1 every character of the string Generate returns
\* is one of the 64 data characters A-Z a-z 0-9 - _; no "=" of the first
\* encoding or of a top-up segment is among them.
C11_GenerateAlphabet ==
    (entry = "Generate" /\ gpc = "done" /\ gerr = "none" /\ length >= 1)
        => \A k \in 1..Len(gout) : gout[k] \in DataChars

\* Generate(9) has returned: the 8 characters of the first encoding and one
\* data character of the padded top-up segment.
C11_Witness ==
    /\ entry = "Generate" /\ gpc = "done" /\ gerr = "none" /\ length = 9
    /\ Len(encoded) = 9 /\ drawn = 7
    /\ \A k \in 1..9 : gout[k] \in DataChars

\* C26: for every length >= 1 the first draw of random bytes is
\* ceil(length * 3 / 4) bytes, and the top-up loop is left only with an
\* encoding of at least length characters.
C26_FirstDrawIsCeil ==
    length >= 1 =>
        /\ firstDraw # -1 => firstDraw * 4 >= length * 3
                             /\ (firstDraw - 1) * 4 < length * 3
        /\ gpc = "trim" => Len(encoded) >= length

----------------------------------------------------------------------------
(* Claims about GenerateUniqueDataStore, checked under SpecUnique *)

\* C1: a call that returns an ID after N lookups answered "found"
\* (N below maxRetries) has made exactly N+1 lookups and N+1 generations,
\* one per attempt, and returns the candidate of its last, (N+1)-th attempt.
C1_LookupsPerAttempt ==
    (upc = "done" /\ uerr = "none")
        => /\ collisions < maxRetries
           /\ lookups = collisions + 1
           /\ gens = collisions + 1
           /\ i = collisions
           /\ uid = id /\ uid = lookedUp

\* A call has returned its third candidate after two collisions.
C1_Witness ==
    /\ upc = "done" /\ uerr = "none" /\ collisions = 2 /\ lookups = 3
    /\ uid = lookedUp /\ Len(uid) = ulength

\* C2: a call all of whose lookups answered "found" ends (unless the random
\* source failed) with the exhaustion error, and the exhaustion error is
\* returned after exactly maxRetries generations and maxRetries lookups,
\* with an empty ID.
C2_ExhaustedAfterBudget ==
    /\ (upc = "done" /\ uerr # "random" /\ collisions = lookups)
          => (uerr = "exhausted" /\ lookups = maxRetries)
    /\ uerr = "exhausted"
          => /\ upc = "done" /\ uid = << >>
             /\ gens = maxRetries /\ lookups = maxRetries
             /\ collisions = maxRetries /\ i = maxRetries
    /\ (lookups <= maxRetries /\ gens <= maxRetries)

\* The exhaustion error has been returned.
C2_Witness ==
    upc = "done" /\ uerr = "exhausted" /\ lookups = maxRetries /\ uid = << >>

\* C3: a lookup error other than not-found ends the call at that attempt
\* with that error and an empty ID; the loop counter advances only on a
\* lookup that answered "found"; and a call that has returned generates
\* and looks up nothing more.
C3_LookupErrorStops ==
    /\ [](uerr \in {"lookup", "cancelled"}
            => /\ upc = "done" /\ uid = << >>
               /\ answer \in {"error", "cancelled"}
               /\ lookups = collisions + 1 /\ gens = lookups)
    /\ [][/\ i' # i => (answer' = "found" /\ collisions' = collisions + 1)
          /\ answer' \in {"error", "cancelled"} => (upc' = "done" /\ uid' = << >>)
          /\ upc = "done" => UNCHANGED <<upc, i, id, uid, uerr, gens, lookups>>]_vars

\* A lookup failed at the second attempt and the call returned its error.
C3_Witness ==
    /\ upc = "done" /\ uerr = "lookup" /\ answer = "error"
    /\ collisions = 1 /\ lookups = 2 /\ gens = 2 /\ uid = << >>

\* C4 (as claimed): a call whose last lookup was made with ctx already
\* cancelled returns a cancellation error, whatever that lookup answered
\* (a failure of the random source aside).
C4_CancelledStops ==
    (upc = "done" /\ cancelledAtLookup /\ uerr # "random")
        => uerr = "cancelled"

\* C12 (as claimed): called with length <= 0 the call neither panics nor
\* looks anything up nor starts a second attempt, and what it returns is
\* the invalid-length error.
C12_InvalidLengthRejected ==
    ulength <= 0
        => /\ upc # "panic" /\ lookups = 0 /\ i = 0
           /\ upc = "done" => uerr = "length"

\* C5: an ID returned without error is the candidate of the last lookup,
\* that lookup answered "not found", and the ID was no key of the
\* datastore when that lookup was made.
C5_ReturnedWasAbsent ==
    (upc = "done" /\ uerr = "none")
        => (uid = lookedUp /\ answer = "notfound" /\ absentAtCheck)

\* An ID was returned as unique and another request has saved it since.
C5_Witness ==
    /\ upc = "done" /\ uerr = "none" /\ absentAtCheck /\ uid = lookedUp
    /\ uid \in store /\ collisions > 0

\* The call itself has moved: an attempt was generated, a lookup was
\* answered, or the call returned.
CallStep ==
    <<upc, i, id, uid, uerr, gens, lookups>>' # <<upc, i, id, uid, uerr, gens, lookups>>

\* C13: no step of GenerateUniqueDataStore changes the store, whatever the
\* outcome of the call (an ID, exhaustion, a lookup error, a cancellation
\* reported by the lookup); the store changes only by other requests.
C13_OnlyReads == [][CallStep => store' = store]_vars

\* The call has returned an ID after a collision and the store does not
\* hold that ID: saving it is left to the caller.
C13_Witness ==
    /\ upc = "done" /\ uerr = "none" /\ uid = lookedUp /\ collisions > 0
    /\ uid \notin store

----------------------------------------------------------------------------
(* Claims about NewRateLimiter, checked under SpecLimiter *)

InNewRateLimiter(p) == lpc[p] \in {"check", "branch", "return"}

HoldsHandle(p) == lpc[p] \in {"allow", "respond"}

\* C6: however the calls interleave, at most one limiter is ever created
\* for a key and every call for the key is handed that one instance; the
\* map is read and written only by the one holder of the registry lock.
C6_OneLimiterPerKey ==
    /\ \A k \in Keys : created[k] <= 1 /\ Cardinality(handed[k]) <= 1
    /\ \A p, q \in Procs :
          (HoldsHandle(p) /\ HoldsHandle(q) /\ lkey[p] = lkey[q])
              => handle[p] = handle[q]
    /\ \A p \in Procs : HoldsHandle(p) => handle[p] = limiters[lkey[p]]
    /\ Cardinality(mutex) <= 1
    /\ \A p \in Procs : InNewRateLimiter(p) <=> p \in mutex

\* One caller has just created the limiter of a key while another call for
\* the same key waits for the lock.
C6_Witness ==
    \E p, q \in Procs :
        /\ p # q /\ lkey[p] = lkey[q]
        /\ lpc[p] = "return" /\ ~lexists[p] /\ created[lkey[p]] = 1
        /\ lpc[q] = "lock"

\* C7: two calls with the same key hold the same limiter: when one holder
\* is admitted by Allow, the bucket seen through every other handle for
\* that key has one token less.
C7_SharedBucket ==
    [][\A p, q \in Procs :
          (/\ p # q /\ lpc[p] = "allow" /\ lpc'[p] = "respond"
           /\ allowed'[p] = "true"
           /\ lpc[q] = "allow" /\ lkey[q] = lkey[p])
              => /\ handle[q] = handle[p]
                 /\ objs'[handle[q]].tokens = objs[handle[q]].tokens - 1]_vars

\* One holder took the only token and the other holder of the same key
\* now faces an empty bucket.
C7_Witness ==
    \E p, q \in Procs :
        /\ p # q /\ lkey[p] = lkey[q]
        /\ lpc[p] = "respond" /\ allowed[p] = "true"
        /\ lpc[q] = "allow" /\ handle[q] = handle[p]
        /\ objs[handle[q]].burst = 1 /\ objs[handle[q]].tokens = 0

\* C8: a step of NewRateLimiter for a key that has an entry changes neither
\* the map nor any limiter (rate, burst, tokens), and the call returns the
\* entry's limiter.
C8_ExistingUnchanged ==
    [][\A p \in Procs :
          (/\ lpc[p] \in {"lock", "check", "branch", "return"}
           /\ lpc'[p] # lpc[p]
           /\ limiters[lkey[p]] # NoLimiter)
              => /\ limiters' = limiters /\ objs' = objs
                 /\ lpc'[p] = "allow" => handle'[p] = limiters[lkey[p]]]_vars

\* A call whose r and b both differ from the existing limiter's has found
\* the entry and is about to return it.
C8_Witness ==
    \E p \in Procs :
        /\ lpc[p] = "return" /\ lexists[p]
        /\ llimiter[p] = limiters[lkey[p]]
        /\ objs[llimiter[p]].rate # lrate[p]
        /\ objs[llimiter[p]].burst # lburst[p]


\* Allow() has just returned to handler p, called on a limiter of burst 1
AllowReturnedOnBurstOne(p) ==
    /\ lpc[p] = "allow" /\ lpc'[p] = "respond"
    /\ objs[handle[p]].burst = 1

\* C14: a limiter of burst 1 holds at most one token; an Allow() on it that
\* finds the token returns true and takes it, every Allow() after that
\* returns false and takes nothing, and the token comes back only with the
\* passing of time; a handler at its Allow() call can always take the step.
C14_BurstOneAdmitsOnce ==
    /\ [](\A p \in Procs :
            lpc[p] = "allow" => ENABLED (AllowAdmit(p) \/ AllowReject(p)))
    /\ [][ /\ \A p \in Procs :
                AllowReturnedOnBurstOne(p) =>
                    IF objs[handle[p]].tokens = 1
                    THEN allowed'[p] = "true" /\ objs'[handle[p]].tokens = 0
                    ELSE allowed'[p] = "false" /\ objs' = objs
            /\ \A n \in DOMAIN objs :
                (objs[n].burst = 1 /\ objs[n].tokens = 0 /\ objs'[n].tokens # 0)
                    => (lpc' = lpc /\ objs'[n].tokens = 1) ]_vars

\* Two handlers hold the same limiter of burst 1: one was admitted, the
\* other, calling Allow() before a refill, was rejected.
C14_Witness ==
    \E p, q \in Procs :
        /\ lpc[p] = "respond" /\ lpc[q] = "respond"
        /\ handle[p] # NoLimiter /\ handle[p] = handle[q]
        /\ objs[handle[p]].burst = 1 /\ objs[handle[p]].tokens = 0
        /\ allowed[p] = "true" /\ allowed[q] = "false"

\* C21: the registry never evicts: a key that has an entry keeps it, mapped
\* to the same limiter instance, through every NewRateLimiter call, every
\* Allow, every handler's end and the passing of time; the set of keys
\* with an entry only grows.
C21_NeverEvicts ==
    [][\A k \in Keys :
         limiters[k] # NoLimiter => limiters'[k] = limiters[k]]_vars

\* Both keys have their entries, and a handler that came after the first
\* key's bucket was emptied holds the instance made first and is refused.
C21_Witness ==
    /\ limiters["10.0.0.1"] = 1 /\ limiters["10.0.0.2"] = 2
    /\ \E p \in Procs :
          /\ lpc[p] = "respond" /\ lkey[p] = "10.0.0.1"
          /\ handle[p] = 1 /\ allowed[p] = "false"

\* C28: limiters of different keys are independent: a step of a handler
\* working on one key (its NewRateLimiter call, its Allow, its end) leaves
\* every other key's entry, and the rate, burst and tokens of that entry's
\* limiter, as they were; and an Allow that rejects found the bucket of its
\* own key's entry empty.
C28_KeysIndependent ==
    [][\A p \in Procs :
          lpc'[p] # lpc[p] =>
              LET k == IF lpc[p] = "idle" THEN lkey'[p] ELSE lkey[p] IN
                /\ \A b \in Keys \ {k} :
                      /\ limiters'[b] = limiters[b]
                      /\ limiters[b] # NoLimiter =>
                            objs'[limiters[b]] = objs[limiters[b]]
                /\ (lpc[p] = "allow" /\ allowed'[p] = "false") =>
                      objs[limiters[k]].tokens < 1]_vars

\* The first key's bucket has been emptied and a request of that client is
\* rejected, while a request of the second client is admitted on a limiter
\* of its own that still has a token left.
C28_Witness ==
    \E p, q \in Procs :
        /\ lpc[p] = "respond" /\ lkey[p] = "10.0.0.1" /\ allowed[p] = "false"
        /\ lpc[q] = "respond" /\ lkey[q] = "10.0.0.2" /\ allowed[q] = "true"
        /\ handle[p] # handle[q]
        /\ objs[handle[p]].tokens = 0 /\ objs[handle[q]].tokens = 1

----------------------------------------------------------------------------
(* Claims about the routes, checked under SpecService *)

SecretRefused(p) ==
    /\ route[p] \in {"POST", "PUT", "DELETE"}
    /\ hdr[p] \in Headers /\ hdr[p] # internalSecretValue

\* C17: a create, edit or delete request whose X-Internal-Secret is missing
\* or wrong is answered 403 and ends in the middleware: its handler is not
\* entered, the limiter is not asked, the datastore is not called, and no
\* step of the request changes the datastore.
C17_ForbiddenNeverRuns ==
    /\ [](\A p \in Reqs :
            SecretRefused(p) =>
                /\ status[p] = 403 /\ rpc[p] = "respond"
                /\ ~touched[p] /\ admit[p] = "none")
    /\ [][\A p \in Reqs :
            (SecretRefused(p) /\ rpc'[p] # rpc[p]) => ds' = ds]_vars

\* Two requests to protected routes are refused, one without the header
\* and one with a wrong value, and the entities are where they were.
C17_Witness ==
    \E p, q \in Reqs :
        /\ route[p] = "DELETE" /\ hdr[p] = "" /\ status[p] = 403
        /\ route[q] = "PUT" /\ hdr[q] = "guess" /\ status[q] = 403
        /\ ~touched[p] /\ ~touched[q]

\* C18 (as claimed): in every interleaving, an edit that replaces the
\* stored URL replaces a URL equal to its old_url, and an edit that finds
\* another URL stored fails with the mismatch and changes nothing.
C18_EditReplacesOldURL ==
    [][\A p \in Reqs :
         (route[p] = "PUT" /\ rpc[p] = "update" /\ rpc'[p] = "respond") =>
            IF ds[rid[p]] = rold[p]
            THEN status'[p] = 200 => ds'[rid[p]] = rnew[p]
            ELSE ds' = ds /\ status'[p] # 200]_vars

\* the create handler can save now and answer 200
SavesNow(p) == PostSave(p) /\ status'[p] = 200 /\ ds'[rid[p]] = rnew[p]

\* C20: nothing holds a candidate between its uniqueness check and its
\* save: a create request handed an ID can always save it, also when
\* another request has saved under the same ID since the check, and the
\* save that succeeds puts its URL in the place of whatever is stored.
C20_SaveOverwrites ==
    /\ [](\A p \in Reqs : rpc[p] = "save" => ENABLED SavesNow(p))
    /\ [][\A p \in Reqs :
            (rpc[p] = "save" /\ status'[p] = 200) => ds'[rid[p]] = rnew[p]]_vars

\* Two create requests were handed the same ID, both were answered 200,
\* and the entity holds the URL of one of them only.
C20_Witness ==
    \E p, q \in Reqs :
        /\ p # q /\ route[p] = "POST" /\ route[q] = "POST"
        /\ rpc[p] = "respond" /\ rpc[q] = "respond"
        /\ status[p] = 200 /\ status[q] = 200
        /\ rid[p] = rid[q] /\ rnew[p] # rnew[q]
        /\ ds[rid[p]] = rnew[q]

\* C22 (as claimed): in every interleaving with edits of the same ID, a
\* delete that removes the entity of its ID removes an entity whose stored
\* URL, at the time of the removal, equals the URL of the request.
C22_DeleteRemovesGivenURL ==
    [][\A p \in Reqs :
         ( /\ route[p] = "DELETE" /\ rpc[p] = "delete" /\ rpc'[p] = "respond"
           /\ ds[rid[p]] # NoURL /\ ds'[rid[p]] = NoURL )
            => ds[rid[p]] = rold[p]]_vars

\* C23: an edit or delete request whose path ID differs from the ID of its
\* payload is answered 400 and ends in its validation: the datastore is
\* neither read nor written by it.
C23_IDMismatchRejected ==
    /\ [](\A p \in Reqs :
            (route[p] \in {"PUT", "DELETE"} /\ rerr[p] = "idmismatch") =>
                (status[p] = 400 /\ rpc[p] = "respond" /\ ~touched[p]))
    /\ [][\A p \in Reqs :
            (rerr'[p] = "idmismatch" /\ rpc'[p] # rpc[p]) => ds' = ds]_vars

\* An edit and a delete, both let through by the middleware, are refused
\* for differing IDs without a datastore call.
C23_Witness ==
    \E p, q \in Reqs :
        /\ route[p] = "PUT" /\ rerr[p] = "idmismatch" /\ status[p] = 400
        /\ route[q] = "DELETE" /\ rerr[q] = "idmismatch" /\ status[q] = 400
        /\ admit[p] = "true" /\ admit[q] = "true"
        /\ ~touched[p] /\ ~touched[q]

\* C27: the step of InternalOnly that refuses a create, edit or delete
\* request for its header takes no token from the client's limiter and
\* stores no limiter for the client; a token is taken, or a limiter stored,
\* only by a step of a GET request or of a request carrying the secret.
C27_RefusedTakesNoToken ==
    /\ [][\A p \in Reqs :
            (rpc[p] = "middleware" /\ rpc'[p] # rpc[p]
                /\ hdr'[p] # internalSecretValue)
            => (bucket' = bucket /\ registered' = registered)]_vars
    /\ [][(bucket' < bucket \/ registered' # registered) =>
            \E p \in Reqs :
                /\ rpc'[p] # rpc[p]
                /\ route[p] = "GET" \/ hdr'[p] = internalSecretValue]_vars

\* A create request with a wrong secret has been refused, and the store
\* holds no limiter for its client: the bucket a first limiter would start
\* with is untouched.
C27_Witness ==
    \E p \in Reqs :
        /\ route[p] = "POST" /\ hdr[p] = "guess" /\ status[p] = 403
        /\ rpc[p] = "respond" /\ ~registered /\ bucket = RateBurst

\* C29: an ID gets an entity only by the save of a create request that is
\* answered 200, never by an edit; an edit whose read or whose
\* transactional write finds the ID without an entity ends there, leaves
\* the ID absent and, unless the datastore call itself failed (500), is
\* answered 404 not-found.
C29_EditNeverAdds ==
    /\ [][\A k \in IDs :
            (ds[k] = NoURL /\ ds'[k] # NoURL) =>
                \E p \in Reqs :
                    /\ route[p] = "POST" /\ rpc[p] = "save" /\ rid[p] = k
                    /\ rpc'[p] = "respond" /\ status'[p] = 200]_vars
    /\ [][\A p \in Reqs :
            (/\ route[p] = "PUT" /\ rpc[p] \in {"read", "update"}
             /\ rpc'[p] # rpc[p] /\ ds[rid[p]] = NoURL)
            => /\ rpc'[p] = "respond" /\ ds' = ds
               /\ status'[p] \in {404, 500}
               /\ rerr'[p] # "other" =>
                     (status'[p] = 404 /\ rerr'[p] = "notfound")]_vars

\* An edit has read its ID and found its old URL, a delete request for the
\* same ID has been answered 200 since, and the edit now stands before its
\* transactional write with the ID absent.
C29_Witness ==
    \E p, q \in Reqs :
        /\ route[p] = "PUT" /\ rpc[p] = "update" /\ touched[p]
        /\ route[q] = "DELETE" /\ rpc[q] = "respond" /\ status[q] = 200
        /\ rid[q] = rid[p] /\ rold[q] = rold[p] /\ touched[q]
        /\ ds[rid[p]] = NoURL

----------------------------------------------------------------------------
(* Claims about the shutdown, checked under SpecShutdown *)

\* C19 (as claimed): a process that has taken its shutdown signal and has
\* ended (a listener that failed to start set aside) has returned from main
\* with the HTTP server closed, no request cut short, and the datastore
\* client closed, or at least its Close called.
C19_OrderlyShutdown ==
    (received # "" /\ exited \notin {"running", "exit1"})
        => /\ exited = "returned"
           /\ server = "closed" /\ active = 0
           /\ dsClient \in {"closed", "closeFailed"}

----------------------------------------------------------------------------
(* Claims about RunWorkers, checked under SpecWorkers and SpecWorkersFair *)

\* C24: results is closed only after shutdown has been called and every
\* worker has returned; with the channel closed no worker is sending on it
\* or has a send still to make.
C24_ClosedAfterWorkers ==
    closed =>
        /\ shutdownCalls > 0
        /\ \A w \in Workers : wpc[w] = "done" /\ ~Sending(w)

\* The channel is closed after one worker was stopped by its cancellation
\* message with pods left and the other had sent the error of its listing.
C24_Witness ==
    /\ closed /\ shutdownCalls = 1 /\ panicked = "none"
    /\ \E w, v \in Workers :
          /\ wpc[w] = "done" /\ cancelMsgs[w] = 1 /\ left[w] > 0
          /\ wpc[v] = "done" /\ cancelMsgs[v] = 0 /\ left[v] = 0

C30_ShutdownAgainHarmless ==
    shutdownCalls > 1 => panicked = "none"

============================================================================
